---- MODULE Spec2Model ----
(***************************************************************************)
(* Model of streamlit_app.py, the PageSpeed Insights visualizer: the       *)
(* memoized loader (get_db_connection, load_data), the Reload button, and  *)
(* one render cycle of main() with its date / URL / strategy filters, the  *)
(* summary cards (display_url_metrics), the charts (plot_url_metrics) and  *)
(* the raw table.                                                          *)
(*                                                                         *)
(* A table (pandas DataFrame) is a record [cols, rows]: the set of column  *)
(* names and the sequence of rows in frame order.  A cell of a numeric     *)
(* column is a sequence: <<v>> for the value v, <<>> for a missing value   *)
(* (NaN / NULL) or for a column the table does not have.                   *)
(***************************************************************************)
EXTENDS Integers, Sequences, FiniteSets, TLC

\* ------------------------------------------------------------------ bounds
\* Largest number of rows the store's table holds.
MaxRows == 3

\* --------------------------------------------------------------- constants
\* Seconds in one day: pd.Timedelta(days=1) on second-resolution timestamps.
DAY == 86400

\* The preferred metric order of main().
MetricOrder == <<"performance", "fcp", "lcp", "cls">>

\* ---------------------------------------------------------------- the store
\* Column sets of the pagespeed_results table the model starts from: the
\* full schema and the schemas lacking one expected column.
FullSchema == {"url", "strategy", "poll_time", "performance", "fcp"}

Schemas ==
  { FullSchema,
    FullSchema \ {"url"},
    FullSchema \ {"strategy"},
    FullSchema \ {"poll_time"},
    FullSchema \ {"performance", "fcp"} }

\* Measurement rows the external poller may write.
RowPool ==
  { [url |-> "a", strategy |-> "mobile",  poll_time |-> <<0>>,
     performance |-> <<10>>, fcp |-> <<>>,   datetime |-> <<>>],
    [url |-> "a", strategy |-> "mobile",  poll_time |-> <<86399>>,
     performance |-> <<>>,   fcp |-> <<30>>, datetime |-> <<>>],
    [url |-> "a", strategy |-> "desktop", poll_time |-> <<86400>>,
     performance |-> <<20>>, fcp |-> <<>>,   datetime |-> <<>>],
    [url |-> "b", strategy |-> "desktop", poll_time |-> <<86401>>,
     performance |-> <<20>>, fcp |-> <<30>>, datetime |-> <<>>] }

\* A row as stored under a schema: cells of absent columns are blank.
Project(r, cols) ==
  [url         |-> IF "url" \in cols THEN r.url ELSE "",
   strategy    |-> IF "strategy" \in cols THEN r.strategy ELSE "",
   poll_time   |-> IF "poll_time" \in cols THEN r.poll_time ELSE <<>>,
   performance |-> IF "performance" \in cols THEN r.performance ELSE <<>>,
   fcp         |-> IF "fcp" \in cols THEN r.fcp ELSE <<>>,
   datetime    |-> <<>>]

\* pd.DataFrame(): no columns, no rows.
EmptyTable == [cols |-> {}, rows |-> <<>>]

\* DataFrame.empty: some axis has length 0.
IsEmpty(t) == t.cols = {} \/ Len(t.rows) = 0

\* ------------------------------------------------------------- sequences
Range(s) == { s[i] : i \in 1..Len(s) }

RECURSIVE Filter(_, _)
\* Boolean-mask selection data[mask]: keeps frame order.
Filter(rows, keep) ==
  IF rows = <<>> THEN <<>>
  ELSE IF Head(rows) \in keep THEN <<Head(rows)>> \o Filter(Tail(rows), keep)
       ELSE Filter(Tail(rows), keep)

RECURSIVE Unique(_)
\* Series.unique(): distinct values in order of first appearance.
Unique(s) ==
  IF s = <<>> THEN <<>>
  ELSE LET u == Unique(SubSeq(s, 1, Len(s) - 1))
       IN IF s[Len(s)] \in Range(u) THEN u ELSE Append(u, s[Len(s)])

\* The lists a multiselect over the options can return: distinct options in
\* the order the user picked them.
Selections(opts) ==
  UNION { { s \in [1..n -> Range(opts)] :
              \A i, j \in 1..n : i # j => s[i] # s[j] } : n \in 0..Len(opts) }

\* ------------------------------------------------------------ timestamps
\* pd.to_datetime(poll_time, unit='s'): epoch seconds to calendar timestamp.
ToDatetime(t) == [day |-> t \div DAY, sec |-> t % DAY]

\* pd.to_datetime(date): midnight of the date.
Midnight(d) == [day |-> d, sec |-> 0]

\* timestamp + pd.Timedelta(days=1)
PlusOneDay(ts) == [day |-> ts.day + 1, sec |-> ts.sec]

\* Timestamp order.
TsLeq(x, y) == x.day < y.day \/ (x.day = y.day /\ x.sec <= y.sec)

TsLess(x, y) == TsLeq(x, y) /\ x # y

\* Series.between(left, right): inclusive="both" by default.
Between(x, left, right) == TsLeq(left, x) /\ TsLeq(x, right)

\* load_data lines 30-32: derive datetime when poll_time exists.
Derive(t) ==
  IF "poll_time" \in t.cols
  THEN [cols |-> t.cols \cup {"datetime"},
        rows |-> [i \in 1..Len(t.rows) |->
                    [t.rows[i] EXCEPT !.datetime =
                       IF t.rows[i].poll_time = <<>> THEN <<>>
                       ELSE <<ToDatetime(t.rows[i].poll_time[1])>>]]]
  ELSE t

\* ---------------------------------------------------------------- filters
\* A cell of a metric column, by column name.
Cell(r, c) ==
  CASE c = "performance" -> r.performance
    [] c = "fcp" -> r.fcp
    [] OTHER -> <<>>

\* main lines 123-126: a two-date selection keeps the rows between midnight
\* of the first date and midnight of the day after the second; any other
\* selection leaves the table as it is.
DateFilter(t, dates) ==
  IF Len(dates) = 2
  THEN LET start_date == Midnight(dates[1])
           end_date == PlusOneDay(Midnight(dates[2]))
       IN [t EXCEPT !.rows = Filter(t.rows,
             { r \in Range(t.rows) :
                 /\ r.datetime # <<>>
                 /\ Between(r.datetime[1], start_date, end_date) })]
  ELSE t

URLFilter_passthrough(t, selected_urls) ==
  IF selected_urls = <<>> THEN t
  ELSE [t EXCEPT !.rows = Filter(t.rows,
          { r \in Range(t.rows) : r.url \in Range(selected_urls) })]

\* main line 136: data[data['url'].isin(selected_urls)]
URLFilter(t, selected_urls) ==
  [t EXCEPT !.rows = Filter(t.rows,
     { r \in Range(t.rows) : r.url \in Range(selected_urls) })]

StrategyFilter_first(t, selected_strategy) ==
  [t EXCEPT !.rows = Filter(t.rows,
     { r \in Range(t.rows) : r.strategy = t.rows[1].strategy })]

\* main line 154: data[data['strategy'] == selected_strategy]
StrategyFilter(t, selected_strategy) ==
  [t EXCEPT !.rows = Filter(t.rows,
     { r \in Range(t.rows) : r.strategy = selected_strategy })]

\* The three filter blocks of main, each guarded by its column test.
DateStep(t, dates) ==
  IF "datetime" \in t.cols THEN DateFilter(t, dates) ELSE t

URLStep(t, selected_urls) ==
  IF "url" \in t.cols THEN URLFilter(t, selected_urls) ELSE t

StrategyStep(t, selected_strategy) ==
  IF "strategy" \in t.cols THEN StrategyFilter(t, selected_strategy) ELSE t

\* ------------------------------------------------------ widget option sets
\* min / max of the dates of data['datetime'] (lines 113-114).
Days(t) == { r.datetime[1].day : r \in { q \in Range(t.rows) : q.datetime # <<>> } }

min_date(t) == CHOOSE d \in Days(t) : \A e \in Days(t) : d <= e

max_date(t) == CHOOSE d \in Days(t) : \A e \in Days(t) : e <= d

\* What st.sidebar.date_input can return for a range picker bounded by
\* min_date and max_date: a completed range or a single date while the
\* range is being picked.  <<>> when the widget is not shown.
DateChoices(t) ==
  IF "datetime" \in t.cols
  THEN LET ds == min_date(t)..max_date(t)
       IN { <<d>> : d \in ds } \cup
          { p \in ds \X ds : p[1] <= p[2] }
  ELSE { <<>> }

\* data['url'].unique().tolist() (line 130)
UrlOptions(t) == Unique([i \in 1..Len(t.rows) |-> t.rows[i].url])

\* available_metrics (line 139)
AvailableMetrics(t) ==
  LET present == { i \in 1..Len(MetricOrder) : MetricOrder[i] \in t.cols }
      RECURSIVE Pick(_)
      Pick(i) == IF i > Len(MetricOrder) THEN <<>>
                 ELSE IF i \in present THEN <<MetricOrder[i]>> \o Pick(i + 1)
                      ELSE Pick(i + 1)
  IN Pick(1)

\* st.radio returns None when it has no options.
NoStrategy == "<None>"

\* data['strategy'].unique() (line 151) as the radio's possible results
StrategyChoices(t) ==
  LET opts == Range(Unique([i \in 1..Len(t.rows) |-> t.rows[i].strategy]))
  IN IF opts = {} THEN { NoStrategy } ELSE opts

\* ------------------------------------------------------------- aggregation
RECURSIVE SumCells(_)
SumCells(cells) ==
  IF cells = <<>> THEN 0
  ELSE (IF Head(cells) = <<>> THEN 0 ELSE Head(cells)[1]) + SumCells(Tail(cells))

\* Series.mean(): the mean over the non-missing values, kept as the exact
\* fraction sum / n; n = 0 is NaN.
Mean(cells) ==
  [sum |-> SumCells(cells),
   n   |-> Cardinality({ i \in 1..Len(cells) : cells[i] # <<>> })]

\* data[data['url'] == url]
UrlData(t, url) ==
  [t EXCEPT !.rows = Filter(t.rows, { r \in Range(t.rows) : r.url = url })]

\* display_url_metrics lines 74-85: one card per selected URL that has rows,
\* one tile per selected metric.
Card(t, url, selected_metrics) ==
  [url   |-> url,
   tiles |-> [k \in 1..Len(selected_metrics) |->
                [metric |-> selected_metrics[k],
                 avg_val |-> Mean([i \in 1..Len(UrlData(t, url).rows) |->
                                Cell(UrlData(t, url).rows[i], selected_metrics[k])])]]]

RECURSIVE Cards(_, _, _)
Cards(t, urls, selected_metrics) ==
  IF urls = <<>> THEN <<>>
  ELSE (IF IsEmpty(UrlData(t, Head(urls))) THEN <<>>
        ELSE <<Card(t, Head(urls), selected_metrics)>>)
       \o Cards(t, Tail(urls), selected_metrics)

display_url_metrics(t, selected_urls, selected_metrics) ==
  IF selected_urls = <<>> \/ selected_metrics = <<>> THEN <<>>
  ELSE Cards(t, selected_urls, selected_metrics)

\* plot_url_metrics lines 48-56: one series per selected metric, the points
\* in the frame order of url_data.
plot_url_metrics(url_data, url, strategy, selected_metrics) ==
  [url      |-> url,
   strategy |-> strategy,
   series   |-> [k \in 1..Len(selected_metrics) |->
                  [metric |-> selected_metrics[k],
                   points |-> [i \in 1..Len(url_data.rows) |->
                                [x |-> url_data.rows[i].datetime,
                                 y |-> Cell(url_data.rows[i], selected_metrics[k])]]]]]

RECURSIVE Charts(_, _, _)
\* main lines 161-166
Charts(t, urls, selected_metrics) ==
  IF urls = <<>> THEN <<>>
  ELSE (IF IsEmpty(UrlData(t, Head(urls))) THEN <<>>
        ELSE <<plot_url_metrics(UrlData(t, Head(urls)), Head(urls),
                 IF "strategy" \in t.cols
                 THEN UrlData(t, Head(urls)).rows[1].strategy ELSE "",
                 selected_metrics)>>)
       \o Charts(t, Tail(urls), selected_metrics)

RECURSIVE SortDesc(_)
\* data.sort_values('datetime', ascending=False): missing timestamps last.
SortDesc(rows) ==
  IF rows = <<>> THEN <<>>
  ELSE LET After(r, q) == \/ q.datetime = <<>>
                          \/ r.datetime # <<>> /\ TsLeq(q.datetime[1], r.datetime[1])
           first == CHOOSE i \in 1..Len(rows) :
                      /\ \A j \in 1..Len(rows) : After(rows[i], rows[j])
                      /\ \A j \in 1..(i - 1) : ~After(rows[j], rows[i])
       IN <<rows[first]>> \o
          SortDesc([k \in 1..(Len(rows) - 1) |->
                      IF k < first THEN rows[k] ELSE rows[k + 1]])

\* ------------------------------------------------------------------ state
VARIABLES
  store,          \* the pagespeed_results table of the external store
  cache,          \* st.cache_data entry of load_data: <<>> or <<table>>
  pc,             \* position of the script run
  conn,           \* the connection of the current load: none / open / closed
  ret,            \* value load_data is about to return (inside try/finally)
  data,           \* the table main received from load_data
  load,           \* how the current cycle's load_data call was served
  reloadPending,  \* Reload cleared the cache and load_data was not called since
  msgs,           \* st.error / st.warning messages shown in this cycle
  out             \* what the render cycle produced

vars == <<store, cache, pc, conn, ret, data, load, reloadPending, msgs, out>>

NoLoad == [kind |-> "none", afterReload |-> FALSE]

\* Nothing rendered yet.
NoOut ==
  [outcome |-> "none", fault |-> "", widgets |-> {},
   selected_dates |-> <<>>, urlsBound |-> FALSE, selected_urls |-> <<>>,
   selected_metrics |-> <<>>, selected_strategy |-> NoStrategy,
   afterDate |-> EmptyTable, afterUrl |-> EmptyTable, final |-> EmptyTable,
   cards |-> <<>>, charts |-> <<>>, rawShown |-> FALSE, raw |-> <<>>]

Init ==
  /\ store \in { [cols |-> c, rows |-> <<>>] : c \in Schemas }
  /\ cache = <<>>
  /\ pc = "start"
  /\ conn = "none"
  /\ ret = EmptyTable
  /\ data = EmptyTable
  /\ load = NoLoad
  /\ reloadPending = FALSE
  /\ msgs = {}
  /\ out = NoOut

\* ------------------------------------------------ the store and the clock
\* The external poller appends a measurement between two script runs.
StoreInsert ==
  /\ pc = "start"
  /\ Len(store.rows) < MaxRows
  /\ \E r \in RowPool :
       store' = [store EXCEPT !.rows = Append(@, Project(r, store.cols))]
  /\ UNCHANGED <<cache, pc, conn, ret, data, load, reloadPending, msgs, out>>

\* CACHE_TTL seconds passed since the entry was stored (line 23).
Expire ==
  /\ pc = "start"
  /\ cache # <<>>
  /\ cache' = <<>>
  /\ UNCHANGED <<store, pc, conn, ret, data, load, reloadPending, msgs, out>>

\* ------------------------------------------------------------ script runs
\* A widget interaction reruns the script from the top.
Rerun ==
  /\ pc = "idle"
  /\ pc' = "start"
  /\ conn' = "none"
  /\ ret' = EmptyTable
  /\ data' = EmptyTable
  /\ load' = NoLoad
  /\ msgs' = {}
  /\ out' = NoOut
  /\ UNCHANGED <<store, cache, reloadPending>>

Reload_keep ==
  /\ pc = "idle"
  /\ reloadPending' = TRUE
  /\ pc' = "start"
  /\ conn' = "none"
  /\ ret' = EmptyTable
  /\ data' = EmptyTable
  /\ load' = NoLoad
  /\ msgs' = {}
  /\ out' = NoOut
  /\ UNCHANGED <<store, cache>>

\* main lines 91-93: the Reload button clears the cache and reruns.
Reload ==
  /\ pc = "idle"
  /\ cache' = <<>>
  /\ reloadPending' = TRUE
  /\ pc' = "start"
  /\ conn' = "none"
  /\ ret' = EmptyTable
  /\ data' = EmptyTable
  /\ load' = NoLoad
  /\ msgs' = {}
  /\ out' = NoOut
  /\ UNCHANGED store

\* ---------------------------------------------------------------- loading
\* load_data() served from the memoized entry: the body does not run.
CacheHit ==
  /\ pc = "start"
  /\ cache # <<>>
  /\ data' = cache[1]
  /\ load' = [kind |-> "hit", afterReload |-> reloadPending]
  /\ reloadPending' = FALSE
  /\ pc' = "loaded"
  /\ UNCHANGED <<store, cache, conn, ret, msgs, out>>

\* get_db_connection lines 17: the connection opens.
ConnectOK ==
  /\ pc = "start"
  /\ cache = <<>>
  /\ conn' = "open"
  /\ pc' = "connected"
  /\ UNCHANGED <<store, cache, ret, data, load, reloadPending, msgs, out>>

\* get_db_connection lines 18-21: sqlite3.Error, two errors shown, st.stop().
ConnectFail ==
  /\ pc = "start"
  /\ cache = <<>>
  /\ msgs' = msgs \cup {"error: Database connection failed", "error: Tried path"}
  /\ out' = [out EXCEPT !.outcome = "halt_connection"]
  /\ load' = [kind |-> "no_connection", afterReload |-> reloadPending]
  /\ reloadPending' = FALSE
  /\ pc' = "idle"
  /\ UNCHANGED <<store, cache, conn, ret, data>>

\* load_data lines 28-34: the query and the conversions succeed.
QueryOK ==
  /\ pc = "connected"
  /\ ret' = Derive(store)
  /\ load' = [kind |-> "query_ok", afterReload |-> reloadPending]
  /\ pc' = "finally"
  /\ UNCHANGED <<store, cache, conn, data, reloadPending, msgs, out>>

QueryFail_raise ==
  /\ pc = "connected"
  /\ load' = [kind |-> "query_failed", afterReload |-> reloadPending]
  /\ reloadPending' = FALSE
  /\ out' = [out EXCEPT !.outcome = "crash", !.fault = "load_data"]
  /\ conn' = "closed"
  /\ pc' = "idle"
  /\ UNCHANGED <<store, cache, ret, data, msgs>>

\* load_data lines 35-37: any exception of the try block is reported and an
\* empty DataFrame is returned.
QueryFail ==
  /\ pc = "connected"
  /\ msgs' = msgs \cup {"error: Data loading error"}
  /\ ret' = EmptyTable
  /\ load' = [kind |-> "query_failed", afterReload |-> reloadPending]
  /\ pc' = "finally"
  /\ UNCHANGED <<store, cache, conn, data, reloadPending, out>>

Close_onSuccessOnly ==
  /\ pc = "finally"
  /\ conn' = IF load.kind = "query_ok" THEN "closed" ELSE conn
  /\ data' = ret
  /\ cache' = <<ret>>
  /\ reloadPending' = FALSE
  /\ pc' = "loaded"
  /\ UNCHANGED <<store, ret, load, msgs, out>>

\* load_data lines 38-39, then the return: the connection is closed, the
\* returned value is memoized (line 23) and handed to main (line 102).
Close ==
  /\ pc = "finally"
  /\ conn' = "closed"
  /\ data' = ret
  /\ cache' = <<ret>>
  /\ reloadPending' = FALSE
  /\ pc' = "loaded"
  /\ UNCHANGED <<store, ret, load, msgs, out>>

\* -------------------------------------------------------------- rendering
\* main lines 104-106: nothing loaded, a warning and st.stop().
NoData ==
  [NoOut EXCEPT !.outcome = "halt_no_data"]

\* main lines 109-170 on a non-empty table, for one choice of the widgets'
\* results.  urlsBound tells whether line 131 assigned selected_urls.
Main(d, dates, urlsBound, selected_urls, selected_metrics, selected_strategy) ==
  LET afterDate == DateStep(d, dates)
      afterUrl  == URLStep(afterDate, selected_urls)
      final     == StrategyStep(afterUrl, selected_strategy)
      widgets   == (IF "datetime" \in d.cols THEN {"date"} ELSE {})
                   \cup (IF "url" \in d.cols THEN {"url"} ELSE {})
                   \cup {"metrics"}
                   \cup (IF "strategy" \in d.cols THEN {"strategy"} ELSE {})
      \* line 157 reads the local selected_urls, unassigned without 'url'
      unbound   == ~urlsBound
      plots     == /\ selected_urls # <<>>
                   /\ selected_metrics # <<>>
                   /\ \E u \in Range(selected_urls) : ~IsEmpty(UrlData(final, u))
      \* line 50 and line 170 index the 'datetime' column
      noDatetime == "datetime" \notin final.cols
      fault     == IF unbound THEN "UnboundLocalError: selected_urls (line 157)"
                   ELSE IF plots /\ noDatetime THEN "KeyError: datetime (line 50)"
                   ELSE IF noDatetime THEN "KeyError: datetime (line 170)"
                   ELSE ""
  IN [outcome          |-> IF fault = "" THEN "completed" ELSE "crash",
      fault            |-> fault,
      widgets          |-> widgets,
      selected_dates   |-> dates,
      urlsBound        |-> urlsBound,
      selected_urls    |-> selected_urls,
      selected_metrics |-> selected_metrics,
      selected_strategy |-> selected_strategy,
      afterDate        |-> afterDate,
      afterUrl         |-> afterUrl,
      final            |-> final,
      cards            |-> IF unbound THEN <<>>
                           ELSE display_url_metrics(final, selected_urls, selected_metrics),
      charts           |-> IF unbound \/ noDatetime \/ ~plots THEN <<>>
                           ELSE Charts(final, selected_urls, selected_metrics),
      rawShown         |-> fault = "",
      raw              |-> IF fault = "" THEN SortDesc(final.rows) ELSE <<>>]

\* The rest of main() after load_data returned (lines 104-170), with the
\* widgets' results chosen by the user among what each widget offers.
Render ==
  /\ pc = "loaded"
  /\ pc' = "idle"
  /\ IF IsEmpty(data)
     THEN /\ msgs' = msgs \cup {"warning: No data loaded"}
          /\ out' = NoData
     ELSE /\ msgs' = msgs
          /\ \E dates \in DateChoices(data) :
               \E selected_urls \in
                    (IF "url" \in data.cols
                     THEN Selections(UrlOptions(DateStep(data, dates)))
                     ELSE { <<>> }) :
                 \E selected_metrics \in Selections(AvailableMetrics(data)) :
                   \E selected_strategy \in
                        (IF "strategy" \in data.cols
                         THEN StrategyChoices(URLStep(DateStep(data, dates), selected_urls))
                         ELSE { NoStrategy }) :
                     out' = Main(data, dates, "url" \in data.cols, selected_urls,
                                 selected_metrics, selected_strategy)
  /\ UNCHANGED <<store, cache, conn, ret, data, load, reloadPending>>

Next ==
  \/ StoreInsert
  \/ Expire
  \/ Rerun
  \/ Reload
  \/ CacheHit
  \/ ConnectOK
  \/ ConnectFail
  \/ QueryOK
  \/ QueryFail
  \/ Close
  \/ Render

Spec == Init /\ [][Next]_vars

\* ----------------------------------------------------------------- claims
\* A render cycle that went past the empty-table test has ended.
Rendered == pc = "idle" /\ out.outcome \in {"completed", "crash"}

\* C1: with two dates selected, the date filter keeps a row if and only if
\* start 00:00:00 <= datetime < (end + 1 day) 00:00:00; a row at exactly
\* 00:00:00 of the day after the end date is excluded.
C1_DateFilterHalfOpen ==
  (Rendered /\ "datetime" \in data.cols /\ Len(out.selected_dates) = 2) =>
    \A r \in Range(data.rows) :
      r \in Range(out.afterDate.rows) <=>
        /\ out.selected_dates[1] * DAY <= r.poll_time[1]
        /\ r.poll_time[1] < (out.selected_dates[2] + 1) * DAY

\* C2 as stated: the load_data() call that follows a Reload executes the
\* query and returns the store's current rows.
C2_ReloadReturnsCurrentRows ==
  (pc = "loaded" /\ load.afterReload) =>
    /\ load.kind # "hit"
    /\ data.rows = Derive(store).rows

\* C2 amended: the load_data() call that follows a Reload is never served
\* from the memoized table; it opens the store again and, once connected,
\* runs the query again and returns the store's current rows, or the empty
\* table when the query or the conversion fails.
C2_ReloadForcesFreshQuery ==
  load.afterReload =>
    /\ load.kind \in {"no_connection", "query_ok", "query_failed"}
    /\ (pc = "loaded" /\ load.kind = "query_ok") => data = Derive(store)
    /\ (pc = "loaded" /\ load.kind = "query_failed") => data = EmptyTable

\* A load after a Reload read a store that holds rows.
C2_Witness ==
  /\ pc = "loaded"
  /\ load.afterReload
  /\ load.kind = "query_ok"
  /\ Len(data.rows) >= 2
  /\ data = Derive(store)

\* C3: for every non-empty loaded table, also one that lacks url, strategy
\* or poll_time, no render cycle ends in an unhandled fault.
C3_NoUnhandledFault ==
  (pc = "idle" /\ ~IsEmpty(data)) => out.outcome = "completed"

\* C4: a failing query does not raise: load_data reports the error and
\* returns an empty table, and the cycle that receives it shows a warning
\* and halts before any widget, card, chart or raw table.
C4_QueryFailureDegrades ==
  load.kind = "query_failed" =>
    /\ "error: Data loading error" \in msgs
    /\ out.outcome # "crash"
    /\ pc = "finally" => ret = EmptyTable
    /\ pc = "loaded" => data = EmptyTable
    /\ pc = "idle" =>
         /\ out = NoData
         /\ "warning: No data loaded" \in msgs

\* The query failed on a store that holds rows and the cycle halted.
C4_Witness ==
  /\ pc = "idle"
  /\ load.kind = "query_failed"
  /\ Len(store.rows) > 0
  /\ out.outcome = "halt_no_data"

\* C5: every tile is the mean of the non-missing values of its metric over
\* its URL's rows of the final table, and no tile is shown for a pair that
\* has no non-missing value.
C5_TilesAreMeansOfNonMissing ==
  (pc = "idle" /\ out.outcome = "completed") =>
    \A c \in Range(out.cards) : \A k \in 1..Len(c.tiles) :
      LET rows == UrlData(out.final, c.url).rows
          some == { i \in 1..Len(rows) : Cell(rows[i], c.tiles[k].metric) # <<>> }
      IN /\ some # {}
         /\ c.tiles[k].avg_val.n = Cardinality(some)
         /\ c.tiles[k].avg_val.sum =
              SumCells([i \in 1..Len(rows) |-> Cell(rows[i], c.tiles[k].metric)])

\* C6: a selected URL without rows in the final table gets no card and no
\* chart and the cycle completes without error; a card or a chart is shown
\* only for a URL that has rows.
C6_EmptyUrlSkipped ==
  Rendered =>
    /\ \A u \in Range(out.selected_urls) :
         IsEmpty(UrlData(out.final, u)) =>
           /\ \A c \in Range(out.cards) : c.url # u
           /\ \A c \in Range(out.charts) : c.url # u
           /\ out.outcome = "completed"
    /\ \A c \in Range(out.cards) \cup Range(out.charts) :
         /\ c.url \in Range(out.selected_urls)
         /\ ~IsEmpty(UrlData(out.final, c.url))

\* C7: the points of every series of every chart are in ascending datetime
\* order, whatever the order of the rows in the store.
C7_ChartPointsAscending ==
  Rendered =>
    \A c \in Range(out.charts) : \A k \in 1..Len(c.series) :
      \A i, j \in 1..Len(c.series[k].points) :
        i < j => TsLeq(c.series[k].points[i].x[1], c.series[k].points[j].x[1])

\* C8: the URL filter with an empty selection yields no rows, and with all
\* the URLs of its input selected it yields its input unchanged.
C8_UrlFilterEmptyAndFull ==
  (Rendered /\ "url" \in data.cols) =>
    /\ out.selected_urls = <<>> => out.afterUrl.rows = <<>>
    /\ Range(out.selected_urls) = { r.url : r \in Range(out.afterDate.rows) }
         => out.afterUrl = out.afterDate

\* An empty URL selection emptied a table that had rows.
C8_Witness ==
  /\ Rendered
  /\ "url" \in data.cols
  /\ out.selected_urls = <<>>
  /\ Len(out.afterDate.rows) >= 2
  /\ out.afterUrl.rows = <<>>

\* C9: whenever no load is in progress, the connection load_data opened is
\* not open: it was closed on the success path and on the failure path.
C9_ConnectionReleased ==
  pc \in {"start", "loaded", "idle"} => conn # "open"

\* load_data returned after a failed query, its connection closed.
C9_Witness ==
  /\ pc = "loaded"
  /\ load.kind = "query_failed"
  /\ conn = "closed"

\* C10: for the criteria of the cycle, the date, URL and strategy filters
\* applied to the loaded table in any of the six orders give the table
\* main() computed (date, then URL, then strategy).
C10_FiltersCommute ==
  Rendered =>
    LET D(t) == DateStep(t, out.selected_dates)
        U(t) == URLStep(t, out.selected_urls)
        S(t) == StrategyStep(t, out.selected_strategy)
    IN /\ out.final = S(U(D(data)))
       /\ out.final = U(S(D(data)))
       /\ out.final = S(D(U(data)))
       /\ out.final = D(S(U(data)))
       /\ out.final = U(D(S(data)))
       /\ out.final = D(U(S(data)))

\* A cycle in which each of the three filters, alone, drops rows of the
\* loaded table and the final table still has rows.
C10_Witness ==
  /\ Rendered
  /\ DateStep(data, out.selected_dates) # data
  /\ URLStep(data, out.selected_urls) # data
  /\ StrategyStep(data, out.selected_strategy) # data
  /\ out.final.rows # <<>>
====
